---- MODULE Spec2Model ----
(***************************************************************************)
(* Model of app/retention.py: remove_old_backups, the backup retention     *)
(* cleanup of nautical-backup.  The state is the directory tree under      *)
(* /destination, the three parameters, the wall clock, the locals of       *)
(* remove_old_backups and the position of the run in its loops.  History   *)
(* variables record the filesystem calls, the log records and the          *)
(* deletion set computed for every container.                              *)
(*                                                                         *)
(* Filesystem primitives: os.path.getmtime and shutil.rmtree may raise     *)
(* (the code wraps exactly these two in try/except); os.path.exists,       *)
(* os.path.isdir and os.listdir answer from the tree.  Whether getmtime    *)
(* fails is a property of the entry (statFails), so that a tree nobody     *)
(* modifies answers the same way in two successive runs; whether rmtree    *)
(* fails is chosen at the call.                                            *)
(* datetime.fromtimestamp (line 77) only formats the time for the log      *)
(* record; the record keeps the backup's name and container.               *)
(*                                                                         *)
(* Two specifications run the same actions.  Spec starts from every tree   *)
(* of up to MaxContainers root entries with up to MaxBackups entries each. *)
(* SpecFocus starts from the trees that hold one container of any listing  *)
(* next to a file, an empty container or a container with one old backup.  *)
(***************************************************************************)
EXTENDS Integers, Sequences, FiniteSets, TLC

\* ---- bounds of the model ----
MaxContainers == 2      \* entries listed in /destination
MaxBackups == 2         \* entries listed in one container directory
MaxTicks == 1           \* seconds the wall clock may advance
MaxRuns == 2            \* successive invocations of remove_old_backups

\* ---- values ----
None == -999                        \* Python None for the two thresholds
SecondsPerDay == 86400              \* retention.py:68
Now0 == 2 * SecondsPerDay           \* time.time() when the first run starts
Times == {SecondsPerDay - 1, SecondsPerDay, Now0 - 1}
RetentionCounts == {None, -1, 0, 1}
RetentionDays == {None, 1}

Min(a, b) == IF a < b THEN a ELSE b
Max(a, b) == IF a > b THEN a ELSE b

VARIABLES destination,        \* the tree: /destination -> container -> backup
          destination0,       \* the tree when the current run started
          retention_count, retention_days, dry_run,
          clock,              \* the wall clock, in seconds
          pc,                 \* position of the run
          run,                \* number of the current run
          ci,                 \* index of `container` in os.listdir(destination_dir)
          backups,            \* local `backups`
          backups_to_delete,  \* local `backups_to_delete`
          bi,                 \* index of `b` in the loop of line 75
          ops,                \* filesystem calls of the current run
          log,                \* logger records of the current run
          decisions,          \* container -> what the current run decided
          prev                \* `decisions` of the previous run

vars == <<destination, destination0, retention_count, retention_days, dry_run,
          clock, pc, run, ci, backups, backups_to_delete, bi, ops, log,
          decisions, prev>>

\* ---- the directory tree ----
\* An entry of a container directory.  A file has no use for time; the
\* modification time of an entry whose stat fails is never observed.
FileEntry(n) == [name |-> n, isDir |-> FALSE, time |-> 0, statFails |-> FALSE]
DirEntry(n, t) == [name |-> n, isDir |-> TRUE, time |-> t, statFails |-> FALSE]
UnreadableEntry(n) == [name |-> n, isDir |-> TRUE, time |-> 0, statFails |-> TRUE]
EntryKinds(n) == {FileEntry(n), UnreadableEntry(n)} \cup {DirEntry(n, t) : t \in Times}

Listings == UNION {{f \in [1..n -> UNION {EntryKinds(i) : i \in 1..n}] :
                       \A i \in 1..n : f[i].name = i} : n \in 0..MaxBackups}

\* An entry of /destination: a file, or a container directory.
RootFile == [isDir |-> FALSE, children |-> <<>>]
RootEntries == {RootFile} \cup {[isDir |-> TRUE, children |-> l] : l \in Listings}
RootListings == UNION {[1..n -> RootEntries] : n \in 0..MaxContainers}

Trees == {[exists |-> FALSE, entries |-> <<>>]}
            \cup {[exists |-> TRUE, entries |-> l] : l \in RootListings}

Path(c, n) == <<c, n>>
Container(p) == p[1]
ContainerPath(c) == <<c>>
DestinationDir == <<>>

\* ---- log records ----
Rec(level, event, c, n) == [level |-> level, event |-> event, container |-> c, backup |-> n]

\* ---- lines 41-49: collecting the backups of one container ----
\* os.path.getmtime(backup_path): the time, or an exception
GetMTime(k) == [ok |-> ~k.statFails, time |-> k.time]

\* faulty variant: an entry whose stat fails is collected as a very old backup
CollectEntryVeryOld(c, k) ==
    IF ~k.isDir THEN <<>>
    ELSE <<[name |-> k.name, path |-> Path(c, k.name),
            time |-> IF GetMTime(k).ok THEN GetMTime(k).time ELSE 0]>>

CollectEntry(c, k) ==
    IF ~k.isDir THEN <<>>
    ELSE IF ~GetMTime(k).ok THEN <<>>
    ELSE <<[name |-> k.name, path |-> Path(c, k.name), time |-> GetMTime(k).time]>>

RECURSIVE CollectFrom(_, _)
CollectFrom(c, kids) ==
    IF kids = <<>> THEN <<>>
    ELSE CollectEntry(c, Head(kids)) \o CollectFrom(c, Tail(kids))

RECURSIVE StatOps(_, _)
StatOps(c, kids) ==
    IF kids = <<>> THEN <<>>
    ELSE (IF Head(kids).isDir THEN <<<<"getmtime", Path(c, Head(kids).name)>>>> ELSE <<>>)
         \o StatOps(c, Tail(kids))

RECURSIVE StatErrors(_, _)
StatErrors(c, kids) ==
    IF kids = <<>> THEN <<>>
    ELSE (IF Head(kids).isDir /\ ~GetMTime(Head(kids)).ok
          THEN <<Rec("error", "stat_failed", c, Head(kids).name)>> ELSE <<>>)
         \o StatErrors(c, Tail(kids))

\* ---- line 56: backups.sort(key=lambda b: b['time']), a stable sort ----
RECURSIVE InsertByTime(_, _)
InsertByTime(b, s) ==
    IF s = <<>> THEN <<b>>
    ELSE IF b.time < Head(s).time THEN <<b>> \o s
    ELSE <<Head(s)>> \o InsertByTime(b, Tail(s))

RECURSIVE SortPrefix(_, _)
SortPrefix(s, n) == IF n = 0 THEN <<>> ELSE InsertByTime(s[n], SortPrefix(s, n - 1))

\* faulty variant: newest first
SortByTimeDescending(s) ==
    LET a == SortPrefix(s, Len(s)) IN [i \in 1..Len(a) |-> a[Len(a) + 1 - i]]

SortByTime(s) == SortPrefix(s, Len(s))

\* ---- lines 60-64: retention by count ----
\* faulty variant: one backup too many is kept
CountMarkedKeepsOneMore(sorted, rc) ==
    IF rc # None /\ Len(sorted) > rc + 1
    THEN LET excess == Len(sorted) - rc - 1
         IN {sorted[i].path : i \in 1..Min(excess, Len(sorted))}
    ELSE {}

CountMarked(sorted, rc) ==
    IF rc # None /\ Len(sorted) > rc
    THEN LET excess == Len(sorted) - rc
         IN {sorted[i].path : i \in 1..Min(excess, Len(sorted))}
    ELSE {}

\* ---- lines 67-72: retention by age ----
CutoffTime(rd, now) == IF rd # None THEN now - (rd * SecondsPerDay) ELSE None

\* faulty variant: a backup exactly at the cutoff is marked too
AgeMarkedInclusive(sorted, rd, now) ==
    IF rd # None
    THEN {sorted[i].path : i \in {j \in 1..Len(sorted) : sorted[j].time <= CutoffTime(rd, now)}}
    ELSE {}

AgeMarked(sorted, rd, now) ==
    IF rd # None
    THEN {sorted[i].path : i \in {j \in 1..Len(sorted) : sorted[j].time < CutoffTime(rd, now)}}
    ELSE {}

\* ---- shutil.rmtree(path) succeeding ----
RmTree(tree, p) ==
    LET c == Container(p)
        kids == tree.entries[c].children
    IN [tree EXCEPT !.entries[c].children = SelectSeq(kids, LAMBDA k : k.name # p[2])]

Init ==
    /\ destination \in Trees
    /\ destination0 = destination
    /\ retention_count \in RetentionCounts
    /\ retention_days \in RetentionDays
    /\ dry_run \in BOOLEAN
    /\ clock = Now0
    /\ pc = "start"
    /\ run = 1
    /\ ci = 0
    /\ backups = <<>>
    /\ backups_to_delete = {}
    /\ bi = 0
    /\ ops = <<>>
    /\ log = <<>>
    /\ decisions = <<>>
    /\ prev = <<>>

params == <<retention_count, retention_days, dry_run>>
locals == <<ci, backups, backups_to_delete, bi>>

\* faulty variant: the error is logged but the run goes on
RootMissingContinues ==
    /\ pc = "start"
    /\ ~destination.exists
    /\ log' = Append(log, Rec("error", "no_destination", 0, 0))
    /\ ops' = Append(ops, <<"listdir", DestinationDir>>)
    /\ pc' = "loop"
    /\ UNCHANGED <<destination, destination0, params, clock, run, locals, decisions, prev>>

\* lines 29-31: the destination directory does not exist
RootMissing ==
    /\ pc = "start"
    /\ ~destination.exists
    /\ log' = Append(log, Rec("error", "no_destination", 0, 0))
    /\ pc' = "returned"
    /\ UNCHANGED <<destination, destination0, params, clock, run, locals, ops, decisions, prev>>

\* line 34: os.listdir(destination_dir)
ListContainers ==
    /\ pc = "start"
    /\ destination.exists
    /\ ops' = Append(ops, <<"listdir", DestinationDir>>)
    /\ ci' = 0
    /\ pc' = "loop"
    /\ UNCHANGED <<destination, destination0, params, clock, run, backups,
                   backups_to_delete, bi, log, decisions, prev>>

\* lines 35-37: the entry is not a directory
SkipNonDirectory ==
    /\ pc = "loop"
    /\ ci < Len(destination.entries)
    /\ ~destination.entries[ci + 1].isDir
    /\ ci' = ci + 1
    /\ UNCHANGED <<destination, destination0, params, clock, pc, run, backups,
                   backups_to_delete, bi, ops, log, decisions, prev>>

\* faulty variant: `backups` is not emptied for the next container
CollectBackupsAccumulating ==
    /\ pc = "loop"
    /\ ci < Len(destination.entries)
    /\ destination.entries[ci + 1].isDir
    /\ LET c == ci + 1
           kids == destination.entries[c].children
       IN /\ ci' = c
          /\ backups' = backups \o CollectFrom(c, kids)
          /\ ops' = ops \o <<<<"listdir", ContainerPath(c)>>>> \o StatOps(c, kids)
          /\ log' = log \o StatErrors(c, kids)
    /\ pc' = "collected"
    /\ UNCHANGED <<destination, destination0, params, clock, run,
                   backups_to_delete, bi, decisions, prev>>

\* lines 35-49: the entry is a container; list it and collect its backups
CollectBackups ==
    /\ pc = "loop"
    /\ ci < Len(destination.entries)
    /\ destination.entries[ci + 1].isDir
    /\ LET c == ci + 1
           kids == destination.entries[c].children
       IN /\ ci' = c
          /\ backups' = CollectFrom(c, kids)
          /\ ops' = ops \o <<<<"listdir", ContainerPath(c)>>>> \o StatOps(c, kids)
          /\ log' = log \o StatErrors(c, kids)
    /\ pc' = "collected"
    /\ UNCHANGED <<destination, destination0, params, clock, run,
                   backups_to_delete, bi, decisions, prev>>

\* lines 51-53
NoBackups ==
    /\ pc = "collected"
    /\ backups = <<>>
    /\ log' = Append(log, Rec("info", "no_backups", ci, 0))
    /\ pc' = "loop"
    /\ UNCHANGED <<destination, destination0, params, clock, run, locals, ops,
                   decisions, prev>>

\* lines 55-72: sort, mark by count, mark by age.  time.time() is read (and
\* the clock may have advanced) only when retention_days is set.
MarkBackups ==
    /\ pc = "collected"
    /\ backups # <<>>
    /\ \E d \in 0..1 :
          /\ clock + d <= Now0 + MaxTicks
          /\ clock' = IF retention_days # None THEN clock + d ELSE clock
          /\ retention_days = None => d = 0
          /\ LET sorted == SortByTime(backups)
                 marked == CountMarked(sorted, retention_count)
                              \cup AgeMarked(sorted, retention_days, clock')
             IN /\ backups' = sorted
                /\ backups_to_delete' = marked
                /\ decisions' = (ci :> [backups |-> sorted, to_delete |-> marked,
                                        now |-> clock'])
                                   @@ decisions
    /\ bi' = 1
    /\ pc' = "execute"
    /\ UNCHANGED <<destination, destination0, params, run, ci, ops, log, prev>>

\* lines 75-76: b is not marked
KeepBackup ==
    /\ pc = "execute"
    /\ bi <= Len(backups)
    /\ backups[bi].path \notin backups_to_delete
    /\ bi' = bi + 1
    /\ UNCHANGED <<destination, destination0, params, clock, pc, run, ci, backups,
                   backups_to_delete, ops, log, decisions, prev>>

\* faulty variant: the dry run removes the backup it reports
DryRunReportDeletes ==
    /\ pc = "execute"
    /\ bi <= Len(backups)
    /\ backups[bi].path \in backups_to_delete
    /\ dry_run
    /\ log' = Append(log, Rec("info", "would_remove", ci, backups[bi].name))
    /\ destination' = RmTree(destination, backups[bi].path)
    /\ bi' = bi + 1
    /\ UNCHANGED <<destination0, params, clock, pc, run, ci, backups,
                   backups_to_delete, ops, decisions, prev>>

\* lines 77-80
DryRunReport ==
    /\ pc = "execute"
    /\ bi <= Len(backups)
    /\ backups[bi].path \in backups_to_delete
    /\ dry_run
    /\ log' = Append(log, Rec("info", "would_remove", ci, backups[bi].name))
    /\ bi' = bi + 1
    /\ UNCHANGED <<destination, destination0, params, clock, pc, run, ci, backups,
                   backups_to_delete, ops, decisions, prev>>

\* faulty variant: dry_run is not consulted
RemoveBackupIgnoresDryRun ==
    /\ pc = "execute"
    /\ bi <= Len(backups)
    /\ backups[bi].path \in backups_to_delete
    /\ ops' = Append(ops, <<"rmtree", backups[bi].path>>)
    /\ destination' = RmTree(destination, backups[bi].path)
    /\ log' = Append(log, Rec("info", "removing", ci, backups[bi].name))
    /\ bi' = bi + 1
    /\ UNCHANGED <<destination0, params, clock, pc, run, ci, backups,
                   backups_to_delete, decisions, prev>>

\* faulty variant: the exception of shutil.rmtree is not caught
RemoveBackupPropagates ==
    /\ pc = "execute"
    /\ bi <= Len(backups)
    /\ backups[bi].path \in backups_to_delete
    /\ ~dry_run
    /\ ops' = Append(ops, <<"rmtree", backups[bi].path>>)
    /\ log' = Append(log, Rec("info", "removing", ci, backups[bi].name))
    /\ \E ok \in BOOLEAN :
          IF ok
          THEN /\ destination' = RmTree(destination, backups[bi].path)
               /\ bi' = bi + 1
               /\ pc' = pc
          ELSE /\ destination' = destination
               /\ bi' = bi
               /\ pc' = "raised"
    /\ UNCHANGED <<destination0, params, clock, run, ci, backups,
                   backups_to_delete, decisions, prev>>

\* faulty variant: a failed shutil.rmtree is tried a second time
RemoveBackupRetries ==
    /\ pc = "execute"
    /\ bi <= Len(backups)
    /\ backups[bi].path \in backups_to_delete
    /\ ~dry_run
    /\ \E ok \in BOOLEAN :
          IF ok
          THEN /\ destination' = RmTree(destination, backups[bi].path)
               /\ ops' = Append(ops, <<"rmtree", backups[bi].path>>)
               /\ log' = Append(log, Rec("info", "removing", ci, backups[bi].name))
          ELSE /\ destination' = destination
               /\ ops' = ops \o <<<<"rmtree", backups[bi].path>>, <<"rmtree", backups[bi].path>>>>
               /\ log' = log \o <<Rec("info", "removing", ci, backups[bi].name),
                                  Rec("error", "delete_failed", ci, backups[bi].name)>>
    /\ bi' = bi + 1
    /\ UNCHANGED <<destination0, params, clock, pc, run, ci, backups,
                   backups_to_delete, decisions, prev>>

\* lines 81-88: shutil.rmtree succeeds, or raises and the error is logged
RemoveBackup ==
    /\ pc = "execute"
    /\ bi <= Len(backups)
    /\ backups[bi].path \in backups_to_delete
    /\ ~dry_run
    /\ ops' = Append(ops, <<"rmtree", backups[bi].path>>)
    /\ \E ok \in BOOLEAN :
          IF ok
          THEN /\ destination' = RmTree(destination, backups[bi].path)
               /\ log' = Append(log, Rec("info", "removing", ci, backups[bi].name))
          ELSE /\ destination' = destination
               /\ log' = log \o <<Rec("info", "removing", ci, backups[bi].name),
                                  Rec("error", "delete_failed", ci, backups[bi].name)>>
    /\ bi' = bi + 1
    /\ UNCHANGED <<destination0, params, clock, pc, run, ci, backups,
                   backups_to_delete, decisions, prev>>

\* line 75: the loop over backups is exhausted
ContainerDone ==
    /\ pc = "execute"
    /\ bi > Len(backups)
    /\ pc' = "loop"
    /\ UNCHANGED <<destination, destination0, params, clock, run, locals, ops, log,
                   decisions, prev>>

\* line 34: the loop over containers is exhausted; the function returns
Finish ==
    /\ pc = "loop"
    /\ ci = Len(destination.entries)
    /\ pc' = "done"
    /\ UNCHANGED <<destination, destination0, params, clock, run, locals, ops, log,
                   decisions, prev>>

\* lines 91-116: the job is started again with the same environment.  Only
\* the repetition of a dry run is followed: a run after a destructive one is
\* a first run on the tree that the destructive run left.
Rerun ==
    /\ pc \in {"done", "returned"}
    /\ run < MaxRuns
    /\ dry_run
    /\ run' = run + 1
    /\ pc' = "start"
    /\ destination0' = destination
    /\ prev' = decisions
    /\ decisions' = <<>>
    /\ ops' = <<>>
    /\ log' = <<>>
    /\ ci' = 0
    /\ backups' = <<>>
    /\ backups_to_delete' = {}
    /\ bi' = 0
    /\ UNCHANGED <<destination, params, clock>>

\* one step of remove_old_backups
Step ==
    \/ RootMissing
    \/ ListContainers
    \/ SkipNonDirectory
    \/ CollectBackups
    \/ NoBackups
    \/ MarkBackups
    \/ KeepBackup
    \/ DryRunReport
    \/ RemoveBackup
    \/ ContainerDone
    \/ Finish

Next == Step \/ Rerun

Spec == Init /\ [][Next]_vars

\* ---- the same program over a root with one container of any listing,
\* ---- alone, after a file or an empty container, and before or after a
\* ---- container that holds one old backup ----
EmptyContainer == [isDir |-> TRUE, children |-> <<>>]
OldBackupContainer == [isDir |-> TRUE, children |-> <<DirEntry(1, SecondsPerDay - 1)>>]
Surroundings == {<<<<>>, <<>>>>, <<<<RootFile>>, <<>>>>, <<<<EmptyContainer>>, <<>>>>,
                 <<<<>>, <<OldBackupContainer>>>>, <<<<OldBackupContainer>>, <<>>>>,
                 <<<<RootFile>>, <<OldBackupContainer>>>>}
FocusTrees ==
    {[exists |-> FALSE, entries |-> <<>>]}
       \cup {[exists |-> TRUE,
              entries |-> around[1] \o <<[isDir |-> TRUE, children |-> l]>> \o around[2]] :
                around \in Surroundings, l \in Listings}

InitFocus ==
    /\ destination \in FocusTrees
    /\ destination0 = destination
    /\ retention_count \in RetentionCounts
    /\ retention_days \in RetentionDays
    /\ dry_run \in BOOLEAN
    /\ clock = Now0
    /\ pc = "start"
    /\ run = 1
    /\ ci = 0
    /\ backups = <<>>
    /\ backups_to_delete = {}
    /\ bi = 0
    /\ ops = <<>>
    /\ log = <<>>
    /\ decisions = <<>>
    /\ prev = <<>>

SpecFocus == InitFocus /\ [][Next]_vars

(***************************************************************************)
(* Vocabulary of the claims                                                *)
(***************************************************************************)
SeqSet(s) == {s[i] : i \in DOMAIN s}
Paths(s) == {s[i].path : i \in DOMAIN s}
Dirs(tree) == {c \in DOMAIN tree.entries : tree.entries[c].isDir}
Kids(tree, c) == SeqSet(tree.entries[c].children)
BackupDirs(tree, c) == {k \in Kids(tree, c) : k.isDir}
Readable(tree, c) == {k \in BackupDirs(tree, c) : ~k.statFails}
AsBackup(c, k) == [name |-> k.name, path |-> Path(c, k.name), time |-> k.time]
Called(op, p) == \E i \in DOMAIN ops : ops[i] = <<op, p>>
Logged(r) == \E i \in DOMAIN log : log[i] = r
LoggedEvent(e) == \E i \in DOMAIN log : log[i].event = e
Listed(c) == Called("listdir", ContainerPath(c))
Terminated == pc \in {"done", "returned"}

\* S holds k backups of B, none of them newer than a backup of B left out
OldestK(S, B, k) ==
    /\ S \subseteq B
    /\ Cardinality(S) = k
    /\ \A a \in S : \A b \in B \ S : a.time <= b.time

\* the backups of B the age policy marks when the clock reads now
OlderThanCutoff(B, now) ==
    IF retention_days = None THEN {}
    ELSE {b \in B : b.time < now - retention_days * SecondsPerDay}

CountToDrop(n) ==
    IF retention_count = None THEN 0 ELSE Min(n, Max(0, n - retention_count))

\* C1: the deletion set of every container with a collected backup is exactly
\* the union of the max(0, n - retention_count) oldest collected backups
\* (none when retention_count is null) and the collected backups whose
\* modification time is strictly below now - retention_days * 86400 (none
\* when retention_days is null); so it is a subset of the collected backups,
\* and empty when both thresholds are null or when n <= retention_count and
\* no backup is older than the cutoff.
C1_DeletionSetIsUnion ==
    \A c \in DOMAIN decisions :
        LET d == decisions[c]
            B == SeqSet(d.backups)
            n == Len(d.backups)
            aged == OlderThanCutoff(B, d.now)
        IN /\ n >= 1
           /\ Cardinality(B) = n
           /\ B = {AsBackup(c, k) : k \in Readable(destination0, c)}
           /\ \E S \in SUBSET B :
                 /\ OldestK(S, B, CountToDrop(n))
                 /\ d.to_delete = {b.path : b \in S \cup aged}
           /\ d.to_delete \subseteq Paths(d.backups)
           /\ Cardinality(d.to_delete) <= n
           /\ (retention_count = None /\ retention_days = None) => d.to_delete = {}
           /\ ((retention_count = None \/ n <= retention_count) /\ aged = {})
                 => d.to_delete = {}

\* C1 witness: a container where the count policy marks one backup, the age
\* policy marks a backup, and a backup at the cutoff is kept
C1_Witness ==
    \E c \in DOMAIN decisions :
        LET d == decisions[c] IN
        /\ retention_count = 1 /\ retention_days = 1
        /\ Len(d.backups) = 2
        /\ Cardinality(d.to_delete) = 1
        /\ \E i \in DOMAIN d.backups :
              /\ d.backups[i].time = d.now - SecondsPerDay
              /\ d.backups[i].path \notin d.to_delete

NoDeleteFailed == ~LoggedEvent("delete_failed")
NoStatFailed == ~LoggedEvent("stat_failed")

\* the backups of c that the run removed are none of them newer than a
\* readable backup that c still holds
KeptAreMostRecent(c) ==
    \A k \in Readable(destination0, c) \ Kids(destination, c) :
        \A r \in Readable(destination, c) : k.time <= r.time

CountPolicyOutcome ==
    \A c \in Dirs(destination) :
        /\ Cardinality(BackupDirs(destination, c)) <= retention_count
        /\ KeptAreMostRecent(c)

C3_DryRunChangesNothing ==
    dry_run =>
        /\ destination = destination0
        /\ \A i \in DOMAIN ops : ops[i][1] # "rmtree"
        /\ ~LoggedEvent("removing")
        /\ pc = "done" =>
              \A c \in DOMAIN decisions : \A p \in decisions[c].to_delete :
                  /\ Logged(Rec("info", "would_remove", c, p[2]))
                  /\ \E k \in BackupDirs(destination, c) : k.name = p[2]

\* C3 witness: a finished dry run that reported two backups
C3_Witness ==
    /\ dry_run /\ pc = "done"
    /\ \E c \in DOMAIN decisions :
          /\ Cardinality(decisions[c].to_delete) = 2
          /\ \A p \in decisions[c].to_delete : Logged(Rec("info", "would_remove", c, p[2]))

\* what is left of the run: every step of remove_old_backups makes it smaller
PerContainer == MaxBackups + 3
Remaining ==
    LET left == Len(destination.entries) - ci IN
    CASE pc = "start" -> (Len(destination.entries) + 1) * PerContainer + 1
      [] pc = "loop" -> left * PerContainer + 1
      [] pc = "collected" -> left * PerContainer + PerContainer
      [] pc = "execute" -> left * PerContainer + 2 + (Len(backups) + 1 - bi)
      [] OTHER -> 0

C4_State ==
    /\ pc \in {"start", "loop", "collected", "execute", "done", "returned"}
    /\ Remaining >= 0
    /\ ~Terminated => ENABLED Step
    /\ pc = "returned" => ~destination.exists
    /\ \A i \in DOMAIN ops :
          (ops[i][1] = "rmtree" /\ ~Logged(Rec("error", "delete_failed", ops[i][2][1], ops[i][2][2])))
             => \A k \in Kids(destination, ops[i][2][1]) : k.name # ops[i][2][2]
    /\ \A i \in DOMAIN log : log[i].event = "delete_failed" =>
          Called("rmtree", Path(log[i].container, log[i].backup))
    /\ pc = "done" =>
          /\ \A c \in Dirs(destination) : Listed(c)
          /\ ~dry_run => \A c \in DOMAIN decisions : \A p \in decisions[c].to_delete :
                             Called("rmtree", p)

WithoutUnreadable(kids) == SelectSeq(kids, LAMBDA k : ~(k.isDir /\ k.statFails))

\* C5: an entry whose modification time cannot be read is reported, is not
\* collected, not marked and never deleted, and the container's decision is
\* the one taken for the same listing without that entry.
C5_StatFailureExcluded ==
    \A c \in Dirs(destination0) : Listed(c) =>
        LET kids == destination0.entries[c].children
            rest == SortByTime(CollectFrom(c, WithoutUnreadable(kids)))
        IN /\ \A k \in BackupDirs(destination0, c) : k.statFails =>
                 /\ Logged(Rec("error", "stat_failed", c, k.name))
                 /\ ~Called("rmtree", Path(c, k.name))
                 /\ k \in Kids(destination, c)
                 /\ c \in DOMAIN decisions =>
                       /\ Path(c, k.name) \notin Paths(decisions[c].backups)
                       /\ Path(c, k.name) \notin decisions[c].to_delete
           /\ c \in DOMAIN decisions =>
                 /\ Len(decisions[c].backups)
                       = Cardinality({k \in BackupDirs(destination0, c) : ~k.statFails})
                 /\ decisions[c].backups = rest
                 /\ decisions[c].to_delete =
                       CountMarked(rest, retention_count)
                          \cup AgeMarked(rest, retention_days, decisions[c].now)
           /\ (c \notin DOMAIN decisions /\ (c < ci \/ Terminated))
                 => \A k \in BackupDirs(destination0, c) : k.statFails

\* C5 witness: a container with an unreadable entry and a readable backup
\* that the run removed while the unreadable one stayed
C5_Witness ==
    /\ pc = "done" /\ ~dry_run /\ retention_count = 0
    /\ \E c \in DOMAIN decisions :
          /\ \E k \in BackupDirs(destination0, c) : k.statFails
          /\ \E k \in BackupDirs(destination0, c) :
                ~k.statFails /\ k \notin Kids(destination, c)

SecondDryRunDone == dry_run /\ run >= 2 /\ pc = "done"

\* C7 as stated: two successive dry runs with the same thresholds on an
\* unmodified tree decide the same deletion set for every container.
C7_Original ==
    SecondDryRunDone =>
        /\ DOMAIN prev = DOMAIN decisions
        /\ \A c \in DOMAIN decisions : prev[c].to_delete = decisions[c].to_delete

\* C7 as amended: they collect the same backups for every container, and
\* decide the same deletion set for every container for which both runs read
\* the same clock value (always when retention_days is null); a later clock
\* reading can only add backups to the deletion set.
C7_DryRunIdempotent ==
    SecondDryRunDone =>
        /\ DOMAIN prev = DOMAIN decisions
        /\ \A c \in DOMAIN decisions :
              /\ prev[c].backups = decisions[c].backups
              /\ (retention_days = None \/ prev[c].now = decisions[c].now)
                    => prev[c].to_delete = decisions[c].to_delete
              /\ prev[c].now <= decisions[c].now
                    => prev[c].to_delete \subseteq decisions[c].to_delete

\* C7 witness: a second dry run with an age threshold that read the same
\* clock value and marked the same backup again
C7_Witness ==
    /\ SecondDryRunDone /\ retention_days # None
    /\ \E c \in DOMAIN decisions :
          /\ prev[c].now = decisions[c].now
          /\ decisions[c].to_delete # {}
          /\ decisions[c].to_delete # Paths(decisions[c].backups)

\* C8: within one run no filesystem call is made twice on the same path: a
\* backup is passed to the recursive delete at most once, also when both
\* policies mark it and when the delete fails; its modification time is read
\* once; a directory is listed once.
C8_AtMostOnce ==
    /\ \A i, j \in DOMAIN ops : ops[i] = ops[j] => i = j
    /\ \A i \in DOMAIN log : log[i].event = "removing" =>
          Cardinality({j \in DOMAIN ops :
                          ops[j] = <<"rmtree", Path(log[i].container, log[i].backup)>>}) = 1
    /\ Cardinality({i \in DOMAIN ops : ops[i][1] = "rmtree"})
          = Cardinality({i \in DOMAIN log : log[i].event = "removing"})

\* C8 witness: a backup marked by both policies whose delete failed, in a run
\* that has finished
C8_Witness ==
    /\ pc = "done"
    /\ \E c \in DOMAIN decisions : \E i \in DOMAIN decisions[c].backups :
          LET d == decisions[c]
              b == d.backups[i]
          IN /\ b.path \in CountMarked(d.backups, retention_count)
             /\ b.path \in AgeMarked(d.backups, retention_days, d.now)
             /\ Called("rmtree", b.path)
             /\ Logged(Rec("error", "delete_failed", c, b.name))

\* C9: a deletion set is closed towards older backups: when b is marked and
\* a is strictly older than b, a is marked too.
C9_ClosedTowardsOlder ==
    \A c \in DOMAIN decisions :
        \A a, b \in SeqSet(decisions[c].backups) :
            (b.path \in decisions[c].to_delete /\ a.time < b.time)
               => a.path \in decisions[c].to_delete

\* C9 witness: two backups of different age, the older marked, the newer kept
C9_Witness ==
    \E c \in DOMAIN decisions :
        \E a, b \in SeqSet(decisions[c].backups) :
            /\ a.time < b.time
            /\ a.path \in decisions[c].to_delete
            /\ b.path \notin decisions[c].to_delete

\* C10: the recursive delete is only ever called on root/container/backup
\* where container is a directory of the root and backup a directory that
\* was collected for that container and is in its deletion set; the root
\* listing, files and the backups nobody deleted stay as they were, and the
\* decision of a container is made of its own backups only.
C10_OnlyMarkedBackups ==
    /\ \A i \in DOMAIN ops : ops[i][1] = "rmtree" =>
          LET p == ops[i][2] IN
          /\ Len(p) = 2
          /\ p[1] \in Dirs(destination0)
          /\ \E k \in BackupDirs(destination0, p[1]) : k.name = p[2]
          /\ p[1] \in DOMAIN decisions
          /\ p \in Paths(decisions[p[1]].backups)
          /\ p \in decisions[p[1]].to_delete
    /\ destination.exists = destination0.exists
    /\ DOMAIN destination.entries = DOMAIN destination0.entries
    /\ \A c \in DOMAIN destination0.entries :
          /\ destination.entries[c].isDir = destination0.entries[c].isDir
          /\ Kids(destination, c) \subseteq Kids(destination0, c)
          /\ \A k \in Kids(destination0, c) \ Kids(destination, c) :
                k.isDir /\ Called("rmtree", Path(c, k.name))
    /\ \A c \in DOMAIN decisions :
          /\ c \in Dirs(destination0)
          /\ \A b \in SeqSet(decisions[c].backups) :
                /\ Container(b.path) = c
                /\ \E k \in BackupDirs(destination0, c) : AsBackup(c, k) = b
          /\ decisions[c].to_delete \subseteq Paths(decisions[c].backups)

\* C10 witness: a run over a file and a backup in each of two containers
\* removed the two backups and left the files
C10_Witness ==
    /\ pc = "done"
    /\ Called("rmtree", Path(1, 1)) /\ Called("rmtree", Path(2, 2))
    /\ \E k \in Kids(destination, 1) : ~k.isDir
    /\ \E k \in Kids(destination, 2) : ~k.isDir
    /\ BackupDirs(destination, 1) = {} /\ BackupDirs(destination, 2) = {}

====
